---------------------------- MODULE Spec2Model ----------------------------
(***************************************************************************)
(* MIDI monitor backend (src/src-tauri/src/backend/mod.rs): the decoder,   *)
(* the tokio broadcast bus held in AppState, the synthetic and hardware    *)
(* producers, the start-up sequence of start_midi_server and the           *)
(* per-connection handler handle_socket with its two spawned tasks.        *)
(***************************************************************************)
EXTENDS Integers, Sequences, FiniteSets, TLC

(***************************************************************************)
(* Bounds of the model.                                                    *)
(***************************************************************************)
\* broadcast::channel(100): the requested capacity, scaled down.  Like 100 it
\* is not a power of two.
RequestedCapacity == 3
\* Calls of midi_sender.send by the synthetic source in the service
\* specification.
MaxPublish == 5
\* Calls of midi_sender.send by the hardware callback in the service
\* specification.
MaxHwPublish == 2
\* Scale steps of the synthetic source in the long-run specification.
LongRun == 26
\* Longest raw frame handed to the decoder in the decoder specification.
MaxFrameLen == 4
\* Messages delivered to the client in the client specification: enough to
\* overfill its log.
MaxArrivals == 103

\* One id per accepted connection.
SessionIds == {1, 2}

\* Numbers of ports midi_in.ports() may enumerate at start-up: none or some
\* (the code tests is_empty and takes the first).
PortCounts == {0, 2}

(***************************************************************************)
(* MidiMessage and Option<u8>                                              *)
(***************************************************************************)
None == <<>>
Some(x) == <<x>>

\* A constructor that puts 0 where a variant has no value for a field.
MidiMessageDefaults(t, n, v, c, val) ==
    LET Or0(o) == IF o = <<>> THEN <<0>> ELSE o IN
    [message_type |-> t, note |-> Or0(n), velocity |-> Or0(v),
     control |-> Or0(c), value |-> Or0(val)]

MidiMessage(t, n, v, c, val) ==
    [message_type |-> t, note |-> n, velocity |-> v, control |-> c, value |-> val]

\* A match on the whole status byte, channel included.
WholeStatusByte(b) == b

\* status >> 4 in place of the mask.
ShiftedNibble(b) == b \div 16

\* status & 0xF0 on a u8
HighNibble(b) == b - (b % 16)

\* The result Option<MidiMessage> is None or Some(message).
\* A decoder that forgets the velocity-0 convention.
from_raw_message_no_retag(message) ==
    IF Len(message) = 0 THEN None
    ELSE LET message_type == HighNibble(message[1]) IN
         CASE message_type = 144 ->
                IF Len(message) >= 3
                THEN Some(MidiMessage("NoteOn", Some(message[2]), Some(message[3]), None, None))
                ELSE None
           [] message_type = 128 ->
                IF Len(message) >= 3
                THEN Some(MidiMessage("NoteOff", Some(message[2]), Some(message[3]), None, None))
                ELSE None
           [] message_type = 176 ->
                IF Len(message) >= 3
                THEN Some(MidiMessage("ControlChange", None, None, Some(message[2]), Some(message[3])))
                ELSE None
           [] OTHER ->
                Some(MidiMessage("Unknown(" \o ToString(message_type) \o ")", None, None, None, None))

\* A decoder that asks for three bytes before it looks at the status.
from_raw_message_strict(message) ==
    IF Len(message) < 3 THEN None ELSE from_raw_message_no_retag(message)

from_raw_message(message) ==
    IF Len(message) = 0 THEN None
    ELSE LET status == message[1]
             message_type == HighNibble(status)
         IN
         CASE message_type = 144 ->
                IF Len(message) >= 3
                THEN LET velocity == message[3] IN
                     IF velocity = 0
                     THEN Some(MidiMessage("NoteOff", Some(message[2]), Some(velocity), None, None))
                     ELSE Some(MidiMessage("NoteOn", Some(message[2]), Some(velocity), None, None))
                ELSE None
           [] message_type = 128 ->
                IF Len(message) >= 3
                THEN Some(MidiMessage("NoteOff", Some(message[2]), Some(message[3]), None, None))
                ELSE None
           [] message_type = 176 ->
                IF Len(message) >= 3
                THEN Some(MidiMessage("ControlChange", None, None, Some(message[2]), Some(message[3])))
                ELSE None
           [] OTHER ->
                Some(MidiMessage("Unknown(" \o ToString(message_type) \o ")", None, None, None, None))

\* A serializer that writes an absent field as the number 0.
JsonOptionZero(o) == IF o = None THEN "0" ELSE ToString(o[1])

\* serde_json::to_string(&midi_message): the JSON object as its token sequence,
\* keys in declaration order, an Option as the number's digits or null.
JsonOption(o) == IF o = None THEN "null" ELSE ToString(o[1])

to_string(m) ==
    << "message_type", m.message_type,
       "note", JsonOption(m.note),
       "velocity", JsonOption(m.velocity),
       "control", JsonOption(m.control),
       "value", JsonOption(m.value) >>

\* serde's Deserialize for Option<u8>: null is Ok(None), the digits of a number
\* in 0..255 are Ok(Some(n)), anything else is an error (None here).
U8 == 0..255

ParseOptionU8(tok) ==
    IF tok = "null" THEN Some(None)
    ELSE IF \E n \in U8 : ToString(n) = tok
         THEN Some(Some(CHOOSE n \in U8 : ToString(n) = tok))
         ELSE None

\* The client's serde_json::from_str::<MidiMessage>(&message_str): Some(m) for
\* Ok(m), None for Err.
from_str(text) ==
    IF Len(text) # 10 THEN None
    ELSE IF <<text[1], text[3], text[5], text[7], text[9]>>
              # <<"message_type", "note", "velocity", "control", "value">> THEN None
    ELSE LET note == ParseOptionU8(text[4])
             velocity == ParseOptionU8(text[6])
             control == ParseOptionU8(text[8])
             value == ParseOptionU8(text[10])
         IN  IF None \in {note, velocity, control, value} THEN None
             ELSE Some(MidiMessage(text[2], note[1], velocity[1], control[1], value[1]))

(***************************************************************************)
(* Inputs                                                                  *)
(***************************************************************************)
StatusBytes == {0, 128, 143, 144, 147, 159, 176, 178, 240, 248}
DataBytes == {0, 1, 64, 127, 200}
Bytes == StatusBytes \cup DataBytes

RECURSIVE FramesOfLen(_)
FramesOfLen(n) ==
    IF n = 0 THEN {<<>>}
    ELSE IF n = 1 THEN {<<s>> : s \in StatusBytes}
    ELSE {Append(f, d) : f \in FramesOfLen(n - 1), d \in DataBytes}

Frames == UNION {FramesOfLen(n) : n \in 0..MaxFrameLen}

\* Frames the driver delivers in the service specification: a truncated
\* frame, a note-on, a control change.
HwFrames == {<<144>>, <<144, 60, 100>>, <<176, 7, 127>>}

\* Frames the driver delivers in the producers' specification: every arm of
\* the decoder, truncated frames, a running channel, data bytes above 127.
VariantFrames ==
    {<<>>, <<144>>, <<144, 60, 100>>, <<147, 200, 200>>, <<144, 60, 0>>,
     <<128, 60, 64>>, <<176, 7, 127>>, <<178, 1>>, <<240>>, <<248, 1, 2, 3>>}


(***************************************************************************)
(* State                                                                   *)
(***************************************************************************)
VARIABLES
    pc_server,        \* start_midi_server: "setup", "bind", "serving", "exited"
    exit_cause,       \* what made start_midi_server return: "", "setup", "bind"
    in_ports,         \* midi_in.ports().len(), -1 before the enumeration
    midi_connection,  \* setup_midi_input's result: "unset", "None", "Some",
                      \* "Err(init)", "Err(port_name)", "Err(connect)"
    sim_pc,           \* simulate_midi_events: "unspawned", "sleep500", "note_on",
                      \* "sleep400", "note_off"
    current_note,     \* simulate_midi_events' counter
    elapsed,          \* simulate_midi_events: milliseconds it has slept in all
    sent_at,          \* simulate_midi_events: elapsed at each of its publishes
    buffer,           \* the channel's ring: slot index -> [pos, val]
    tail,             \* the channel's next write position
    receivers,        \* sessions whose Receiver is alive (rx_cnt is its size)
    next,             \* each Receiver's cursor
    sess,             \* handle_socket: "idle", "open" (awaiting select!), "closed" (returned)
    send_task,        \* "none", "recv" (awaiting recv), "send" (awaiting sender.send), "done"
    in_hand,          \* the message send_task is sending: None or Some([pos, msg])
    recv_task,        \* "none", "next" (awaiting receiver.next), "done"
    peer_closed,      \* the client's close frame or end of stream has been read
    published,        \* every message handed to midi_sender.send: [msg, pos], pos -1
                      \* when the channel had no receiver and returned SendError
    sub_tail,         \* the channel's tail when the session subscribed
    received,         \* what recv handed each session: [pos, msg]
    wire,             \* the JSON texts each session sent to its client
    lagged,           \* recv returned Lagged to the session
    arrived,          \* every frame the driver handed to the callback, in order
    late_read,        \* the inbound task read a frame after handle_socket returned
    mutex,            \* Mutex<AppState>: <<>> when free, else the holder of the guard
    cb_pc,            \* the callback: "idle", "lock" (at or past state_clone.lock())
    cb_msg,           \* the callback's midi_message
    frame,            \* decoder specification: the raw frame
    dec_pc,           \* decoder specification: "call", "returned", "sent", "parsed"
    decoded,          \* decoder specification: from_raw_message's result
    json,             \* decoder specification: the text sent for decoded
    parsed,           \* decoder specification: the client's from_str result
    events,           \* the client's event log (the events signal)
    active_notes,     \* the client's HashMap<u8, bool> of the piano
    handled,          \* every message the client parsed successfully, in order
    n_arrived         \* how many messages the client's socket delivered

startupVars == <<pc_server, exit_cause, in_ports, midi_connection>>
simVars == <<sim_pc, current_note, elapsed, sent_at>>
busVars == <<buffer, tail, receivers, next>>
sessVars == <<sess, send_task, in_hand, recv_task, peer_closed>>
histVars == <<published, sub_tail, received, wire, lagged, late_read, arrived>>
clientVars == <<events, active_notes, handled, n_arrived>>
decVars == <<frame, dec_pc, decoded, json, parsed, clientVars>>
lockVars == <<mutex, cb_pc, cb_msg>>
vars == <<startupVars, simVars, busVars, sessVars, histVars, decVars, lockVars>>

(***************************************************************************)
(* tokio::sync::broadcast as the code uses it                              *)
(***************************************************************************)
RECURSIVE NextPowerOfTwoFrom(_, _)
NextPowerOfTwoFrom(p, n) == IF p >= n THEN p ELSE NextPowerOfTwoFrom(2 * p, n)

\* A channel whose ring has exactly the requested number of slots.
ExactCapacity(requested) == requested

\* broadcast::channel(capacity) rounds the capacity up to a power of two.
ChannelCapacity(requested) == NextPowerOfTwoFrom(1, requested)

Capacity == ChannelCapacity(RequestedCapacity)

Slots == 0..(Capacity - 1)

\* AppState::new: an empty ring; the Receiver channel() returns is dropped.
EmptyBuffer == [i \in Slots |-> [pos |-> i - Capacity, val |-> None]]

\* Sender::send on a channel with a receiver: write the slot at tail.
BufferWrite(buf, t, m) == [buf EXCEPT ![t % Capacity] = [pos |-> t, val |-> Some(m)]]

\* Receiver::recv's three outcomes for a cursor n.
RecvReady(buf, n) == buf[n % Capacity].pos = n
RecvEmpty(buf, n) == buf[n % Capacity].pos + Capacity = n
RecvLagged(buf, n) == ~RecvReady(buf, n) /\ ~RecvEmpty(buf, n)

\* A receive that hands out the value and leaves the cursor where it was.
CursorStuck(n) == n

\* Receiver::recv, on success, moves the cursor to the next position.
CursorAfterRecv(n) == n + 1

\* A bounded queue that makes the sender wait for its slowest receiver.
SendWaitsForReceivers(rx, nxt, t) == \A s \in rx : t - nxt[s] < Capacity

\* Sender::send never waits: it overwrites the oldest slot.
SendReady(rx, nxt, t) == TRUE

\* A producer that stops at the SendError of a channel without receivers.
PublishOrStop(m) ==
    /\ receivers # {}
    /\ published' = Append(published, [msg |-> m, pos |-> tail])
    /\ buffer' = BufferWrite(buffer, tail, m)
    /\ tail' = tail + 1
    /\ UNCHANGED <<receivers, next>>

\* state.lock().unwrap(); state_guard.midi_sender.send(m)
Publish(m) ==
    /\ SendReady(receivers, next, tail)
    /\ IF receivers = {}
       THEN /\ published' = Append(published, [msg |-> m, pos |-> -1])
            /\ UNCHANGED <<buffer, tail>>
       ELSE /\ published' = Append(published, [msg |-> m, pos |-> tail])
            /\ buffer' = BufferWrite(buffer, tail, m)
            /\ tail' = tail + 1
    /\ UNCHANGED <<receivers, next>>

Alive == pc_server # "exited"


(***************************************************************************)
(* Initial state: start_midi_server has built AppState::new()              *)
(***************************************************************************)
InitService ==
    /\ pc_server = "setup"
    /\ exit_cause = ""
    /\ in_ports = -1
    /\ midi_connection = "unset"
    /\ sim_pc = "unspawned"
    /\ current_note = 0
    /\ elapsed = 0
    /\ sent_at = <<>>
    /\ buffer = EmptyBuffer
    /\ tail = 0
    /\ receivers = {}
    /\ next = [s \in SessionIds |-> 0]
    /\ sess = [s \in SessionIds |-> "idle"]
    /\ send_task = [s \in SessionIds |-> "none"]
    /\ in_hand = [s \in SessionIds |-> None]
    /\ recv_task = [s \in SessionIds |-> "none"]
    /\ peer_closed = [s \in SessionIds |-> FALSE]
    /\ published = <<>>
    /\ sub_tail = [s \in SessionIds |-> 0]
    /\ received = [s \in SessionIds |-> <<>>]
    /\ wire = [s \in SessionIds |-> <<>>]
    /\ lagged = [s \in SessionIds |-> FALSE]
    /\ late_read = [s \in SessionIds |-> FALSE]
    /\ arrived = <<>>
    /\ mutex = <<>>
    /\ cb_pc = "idle"
    /\ cb_msg = None

\* create_signal(Vec::new()), create_signal(HashMap::new())
InitClient ==
    /\ events = <<>>
    /\ active_notes = <<>>
    /\ handled = <<>>
    /\ n_arrived = 0

Init ==
    /\ InitService
    /\ InitClient
    /\ frame = <<>>
    /\ dec_pc = "returned"
    /\ decoded = None
    /\ json = <<>>
    /\ parsed = None

(***************************************************************************)
(* start_midi_server and setup_midi_input                                  *)
(***************************************************************************)
\* A server that starts the simulation whatever setup_midi_input returned.
AlwaysSimulate(conn) == TRUE

\* if _midi_connection.is_none()
ShouldSimulate(conn) == conn = "None"

\* let _midi_connection = setup_midi_input(state.clone())?; followed, with no
\* suspension in between, by the spawn of simulate_midi_events.
SetupReturns(conn, ports) ==
    /\ in_ports' = ports
    /\ midi_connection' = conn
    /\ pc_server' = "bind"
    /\ exit_cause' = ""
    /\ sim_pc' = IF ShouldSimulate(conn) THEN "sleep500" ELSE "unspawned"

\* The ? operator: start_midi_server returns the error.
SetupFails(err, ports) ==
    /\ in_ports' = ports
    /\ midi_connection' = err
    /\ pc_server' = "exited"
    /\ exit_cause' = "setup"
    /\ sim_pc' = sim_pc

SetupMidiInput ==
    /\ pc_server = "setup"
    /\ \/ SetupFails("Err(init)", -1)
       \/ SetupReturns("None", 0)
       \/ \E n \in PortCounts \ {0} : SetupFails("Err(port_name)", n)
       \/ \E n \in PortCounts \ {0} : SetupFails("Err(connect)", n)
       \/ \E n \in PortCounts \ {0} : SetupReturns("Some", n)
    /\ UNCHANGED <<current_note, elapsed, sent_at, busVars, sessVars, histVars, decVars, lockVars>>

\* TcpListener::bind("0.0.0.0:3000").await?
Bind ==
    /\ pc_server = "bind"
    /\ \/ pc_server' = "serving" /\ exit_cause' = ""
       \/ pc_server' = "exited" /\ exit_cause' = "bind"
    /\ UNCHANGED <<in_ports, midi_connection, simVars, busVars, sessVars, histVars, decVars, lockVars>>

(***************************************************************************)
(* simulate_midi_events                                                    *)
(***************************************************************************)
\* A scale that plays one octave without the closing C5.
c_major_scale_short == <<60, 62, 64, 65, 67, 69, 71, 60>>

c_major_scale == <<60, 62, 64, 65, 67, 69, 71, 72>>

ScaleNote(k) == c_major_scale[(k % Len(c_major_scale)) + 1]

\* tokio::time::sleep(Duration::from_millis(500)) at the head of the loop
SleepBeforeNoteOn == 500

\* tokio::time::sleep(Duration::from_millis(400)) between the two sends
SleepBeforeNoteOff == 400

SimulateStep(maxPublish, maxNotes) ==
    /\ Alive
    /\ \/ /\ sim_pc = "sleep500"
          /\ current_note < maxNotes
          /\ elapsed' = elapsed + SleepBeforeNoteOn
          /\ sim_pc' = "note_on"
          /\ UNCHANGED <<current_note, sent_at, busVars, published>>
       \/ /\ sim_pc = "note_on"
          /\ Len(published) < maxPublish
          /\ Publish(MidiMessage("NoteOn", Some(ScaleNote(current_note)), Some(64), None, None))
          /\ sent_at' = Append(sent_at, elapsed)
          /\ sim_pc' = "sleep400"
          /\ UNCHANGED <<current_note, elapsed>>
       \/ /\ sim_pc = "sleep400"
          /\ elapsed' = elapsed + SleepBeforeNoteOff
          /\ sim_pc' = "note_off"
          /\ UNCHANGED <<current_note, sent_at, busVars, published>>
       \/ /\ sim_pc = "note_off"
          /\ Len(published) < maxPublish
          /\ Publish(MidiMessage("NoteOff", Some(ScaleNote(current_note)), Some(0), None, None))
          /\ sent_at' = Append(sent_at, elapsed)
          /\ current_note' = current_note + 1
          /\ sim_pc' = "sleep500"
          /\ UNCHANGED elapsed
    /\ UNCHANGED <<startupVars, sessVars, decVars>>
    /\ UNCHANGED <<sub_tail, received, wire, lagged, late_read, arrived>>

Simulate == SimulateStep(MaxPublish, MaxPublish) /\ UNCHANGED lockVars

SimulateLong == SimulateStep(2 * LongRun, LongRun) /\ UNCHANGED lockVars

(***************************************************************************)
(* The callback setup_midi_input hands to midi_in.connect                  *)
(***************************************************************************)
\* A callback that forwards note messages only.
CallbackNotesOnly(message) ==
    /\ Alive
    /\ midi_connection = "Some"
    /\ Len(arrived) < MaxHwPublish
    /\ arrived' = Append(arrived, message)
    /\ LET midi_message == from_raw_message(message) IN
       IF midi_message # None /\ midi_message[1].note # None
       THEN Publish(midi_message[1])
       ELSE UNCHANGED <<busVars, published>>
    /\ UNCHANGED <<startupVars, simVars, sessVars, decVars, lockVars>>
    /\ UNCHANGED <<sub_tail, received, wire, lagged, late_read>>

\* move |_stamp, message, _| { if let Some(midi_message) = ... { send } }: one
\* call of the callback, on the frame message
Callback(message) ==
    /\ Alive
    /\ midi_connection = "Some"
    /\ Len(arrived) < MaxHwPublish
    /\ arrived' = Append(arrived, message)
    /\ LET midi_message == from_raw_message(message) IN
       IF midi_message # None
       THEN Publish(midi_message[1])
       ELSE UNCHANGED <<busVars, published>>
    /\ UNCHANGED <<startupVars, simVars, sessVars, decVars, lockVars>>
    /\ UNCHANGED <<sub_tail, received, wire, lagged, late_read>>

HardwareCallbackOn(frames) == \E message \in frames : Callback(message)

HardwareCallback == HardwareCallbackOn(HwFrames)

HardwareCallbackAnyFrame == HardwareCallbackOn(VariantFrames)

(***************************************************************************)
(* handle_socket and its two tasks                                         *)
(***************************************************************************)
\* What axum's receiver.next() can yield: Some(Ok(frame)) for each frame kind,
\* Some(Err(_)), and None at the end of the stream.
ClientFrames == {"Text", "Binary", "Ping", "Pong", "Close", "Err", "End"}

\* A subscribe that replays what the ring still holds.
SubscribeFromOldest(t) == IF t > Capacity THEN t - Capacity ELSE 0

\* Sender::subscribe: the new Receiver's cursor is the channel's tail.
SubscribeCursor(t) == t

\* handle_socket up to the spawn of its two tasks: the subscribe under the
\* guard, then the tasks
Subscribe(s) ==
    /\ pc_server = "serving"
    /\ receivers' = receivers \cup {s}
    /\ next' = [next EXCEPT ![s] = SubscribeCursor(tail)]
    /\ sub_tail' = [sub_tail EXCEPT ![s] = tail]
    /\ sess' = [sess EXCEPT ![s] = "open"]
    /\ send_task' = [send_task EXCEPT ![s] = "recv"]
    /\ recv_task' = [recv_task EXCEPT ![s] = "next"]
    /\ UNCHANGED <<startupVars, simVars, buffer, tail, in_hand, peer_closed, decVars>>
    /\ UNCHANGED <<published, received, wire, lagged, late_read, arrived>>

\* Connections are numbered in the order they are accepted.
Connect(s) ==
    /\ sess[s] = "idle"
    /\ \A t \in SessionIds : t < s => sess[t] # "idle"
    /\ Subscribe(s)
    /\ UNCHANGED lockVars

\* Dropping one Receiver closes the channel for every receiver.
DropAllReceivers(rx, s) == {}

\* send_task ends: its midi_receiver is dropped.
DropReceiver(rx, s) == rx \ {s}

\* A recv that hands out a default message instead of the slot's clone.
RecvValueDefault(buf, n) == MidiMessage("NoteOn", Some(0), Some(0), None, None)

\* Receiver::recv's Ok value: a clone of the slot's value.
RecvValue(buf, n) == buf[n % Capacity].val[1]

\* while let Ok(midi_message) = midi_receiver.recv().await
SendTaskRecv(s) ==
    /\ Alive
    /\ send_task[s] = "recv"
    /\ \/ /\ RecvReady(buffer, next[s])
          /\ LET got == [pos |-> next[s], msg |-> RecvValue(buffer, next[s])] IN
                /\ in_hand' = [in_hand EXCEPT ![s] = Some(got)]
                /\ received' = [received EXCEPT ![s] = Append(@, got)]
          /\ next' = [next EXCEPT ![s] = CursorAfterRecv(@)]
          /\ send_task' = [send_task EXCEPT ![s] = "send"]
          /\ UNCHANGED <<receivers, lagged>>
       \/ /\ RecvLagged(buffer, next[s])
          /\ next' = [next EXCEPT ![s] = tail - Capacity]
          /\ lagged' = [lagged EXCEPT ![s] = TRUE]
          /\ send_task' = [send_task EXCEPT ![s] = "done"]
          /\ receivers' = DropReceiver(receivers, s)
          /\ UNCHANGED <<in_hand, received>>
    /\ UNCHANGED <<startupVars, simVars, buffer, tail, sess, recv_task, peer_closed, decVars, lockVars>>
    /\ UNCHANGED <<published, sub_tail, wire, late_read, arrived>>

\* if sender.send(Message::Text(json)).await.is_err() { break; }
SendTaskSend(s) ==
    /\ Alive
    /\ send_task[s] = "send"
    /\ \/ /\ ~peer_closed[s]
          /\ wire' = [wire EXCEPT ![s] = Append(@, to_string(in_hand[s][1].msg))]
          /\ send_task' = [send_task EXCEPT ![s] = "recv"]
          /\ UNCHANGED receivers
       \/ /\ send_task' = [send_task EXCEPT ![s] = "done"]
          /\ receivers' = DropReceiver(receivers, s)
          /\ UNCHANGED wire
    /\ in_hand' = [in_hand EXCEPT ![s] = None]
    /\ UNCHANGED <<startupVars, simVars, buffer, tail, next, sess, recv_task, peer_closed, decVars, lockVars>>
    /\ UNCHANGED <<published, sub_tail, received, lagged, late_read, arrived>>

\* A loop that also leaves on a text frame.
EndsInboundOnText(msg) == msg \in {"Text", "Close", "Err", "End"}

\* The items that end recv_task's loop: Ok(Message::Close(_)) => break,
\* Err(_) => break, and None from receiver.next() (the while let fails).
EndsInbound(msg) == msg \in {"Close", "Err", "End"}

\* One turn of while let Some(msg) = receiver.next().await { match msg { ... } }
\* on the item msg
RecvTaskReads(s, msg) ==
    /\ Alive
    /\ recv_task[s] = "next"
    /\ IF EndsInbound(msg)
       THEN /\ recv_task' = [recv_task EXCEPT ![s] = "done"]
            /\ peer_closed' = [peer_closed EXCEPT ![s] = @ \/ msg \in {"Close", "End"}]
       ELSE UNCHANGED <<recv_task, peer_closed>>
    /\ late_read' = [late_read EXCEPT ![s] = @ \/ sess[s] = "closed"]
    /\ UNCHANGED <<startupVars, simVars, busVars, sess, send_task, in_hand, decVars, lockVars>>
    /\ UNCHANGED <<published, sub_tail, received, wire, lagged, arrived>>

RecvTaskNext(s) == \E msg \in ClientFrames : RecvTaskReads(s, msg)

\* tokio::select! { _ = send_task => {}, _ = recv_task => {} }: handle_socket
\* returns and drops both JoinHandles; dropping a JoinHandle detaches its task.
HandleSocketReturn(s) ==
    /\ Alive
    /\ sess[s] = "open"
    /\ send_task[s] = "done" \/ recv_task[s] = "done"
    /\ sess' = [sess EXCEPT ![s] = "closed"]
    /\ UNCHANGED <<startupVars, simVars, busVars, send_task, in_hand, recv_task, peer_closed>>
    /\ UNCHANGED <<histVars, decVars, lockVars>>

(***************************************************************************)
(* The service                                                             *)
(***************************************************************************)
Next ==
    \/ SetupMidiInput
    \/ Bind
    \/ Simulate
    \/ HardwareCallback
    \/ \E s \in SessionIds : Connect(s)
    \/ \E s \in SessionIds : SendTaskRecv(s)
    \/ \E s \in SessionIds : SendTaskSend(s)
    \/ \E s \in SessionIds : RecvTaskNext(s)
    \/ \E s \in SessionIds : HandleSocketReturn(s)

Spec == Init /\ [][Next]_vars


(***************************************************************************)
(* The synthetic source over a long run: start-up and simulate_midi_events *)
(* alone, far enough for the scale to wrap around.                         *)
(***************************************************************************)
NextSynth ==
    \/ SetupMidiInput
    \/ Bind
    \/ SimulateLong

SpecSynth == Init /\ [][NextSynth]_vars

(***************************************************************************)
(* The two producers without sessions: start-up, then either the hardware  *)
(* callback over every kind of frame or simulate_midi_events.              *)
(***************************************************************************)
NextProducers ==
    \/ SetupMidiInput
    \/ Bind
    \/ HardwareCallbackAnyFrame
    \/ SimulateLong

SpecProducers == Init /\ [][NextProducers]_vars

(***************************************************************************)
(* The Mutex<AppState> step by step: each state.lock(), the subscribe or   *)
(* send under the guard, and the guard's drop at the end of its block.     *)
(***************************************************************************)
NoHolder == <<>>
SimulateThread == <<"simulate">>
CallbackThread == <<"callback">>
SessionThread(s) == <<"session", s>>
LockUsers == {SimulateThread, CallbackThread} \cup {SessionThread(s) : s \in SessionIds}

\* who has reached a state.lock() call (and may hold the guard already)
AtLock(who) ==
    \/ who = SimulateThread /\ sim_pc \in {"note_on", "note_off"}
    \/ who = CallbackThread /\ cb_pc = "lock"
    \/ \E s \in SessionIds : who = SessionThread(s) /\ sess[s] = "locking"

\* A guard bound in the loop body of simulate_midi_events, not in a block of
\* its own: it lives across the sleep.
GuardOutlivesBlock(who) == IF who = SimulateThread THEN who ELSE NoHolder

\* The guard is dropped at the closing brace of the block that took it.
GuardAfterBlock(who) == NoHolder

\* state.lock().unwrap() returns the guard
MutexLock(who) ==
    /\ Alive
    /\ AtLock(who)
    /\ mutex = NoHolder
    /\ mutex' = who
    /\ UNCHANGED <<startupVars, simVars, busVars, sessVars, histVars, decVars, cb_pc, cb_msg>>

\* axum calls handle_socket for an accepted connection
HandleSocketCalled(s) ==
    /\ pc_server = "serving"
    /\ sess[s] = "idle"
    /\ \A t \in SessionIds : t < s => sess[t] # "idle"
    /\ sess' = [sess EXCEPT ![s] = "locking"]
    /\ UNCHANGED <<startupVars, simVars, busVars, histVars, decVars, lockVars>>
    /\ UNCHANGED <<send_task, in_hand, recv_task, peer_closed>>

\* { let state_guard = ...; state_guard.midi_sender.subscribe() }
HandleSocketSubscribe(s) ==
    /\ sess[s] = "locking"
    /\ mutex = SessionThread(s)
    /\ Subscribe(s)
    /\ mutex' = GuardAfterBlock(SessionThread(s))
    /\ UNCHANGED <<cb_pc, cb_msg>>

\* the two tokio::time::sleep(..).await of simulate_midi_events
SimulateSleeps ==
    /\ sim_pc \in {"sleep500", "sleep400"}
    /\ SimulateStep(2 * MaxHwPublish, MaxHwPublish)
    /\ UNCHANGED lockVars

\* { let state_guard = ...; state_guard.midi_sender.send(..) }
SimulateSends ==
    /\ sim_pc \in {"note_on", "note_off"}
    /\ mutex = SimulateThread
    /\ SimulateStep(2 * MaxHwPublish, MaxHwPublish)
    /\ mutex' = GuardAfterBlock(SimulateThread)
    /\ UNCHANGED <<cb_pc, cb_msg>>

\* the callback is called with a frame: from_raw_message, then the lock when
\* it returned Some
CallbackDecodes(message) ==
    /\ Alive
    /\ midi_connection = "Some"
    /\ cb_pc = "idle"
    /\ Len(arrived) < MaxHwPublish
    /\ arrived' = Append(arrived, message)
    /\ LET midi_message == from_raw_message(message) IN
       IF midi_message # None
       THEN cb_pc' = "lock" /\ cb_msg' = midi_message
       ELSE UNCHANGED <<cb_pc, cb_msg>>
    /\ UNCHANGED <<startupVars, simVars, busVars, sessVars, decVars, mutex>>
    /\ UNCHANGED <<published, sub_tail, received, wire, lagged, late_read>>

\* state_guard.midi_sender.send(midi_message) and the end of the if-let body
CallbackSends ==
    /\ Alive
    /\ cb_pc = "lock"
    /\ mutex = CallbackThread
    /\ Publish(cb_msg[1])
    /\ cb_pc' = "idle"
    /\ cb_msg' = None
    /\ mutex' = GuardAfterBlock(CallbackThread)
    /\ UNCHANGED <<startupVars, simVars, sessVars, decVars>>
    /\ UNCHANGED <<sub_tail, received, wire, lagged, late_read, arrived>>

NextLock ==
    \/ SetupMidiInput
    \/ Bind
    \/ \E who \in LockUsers : MutexLock(who)
    \/ \E s \in SessionIds : HandleSocketCalled(s)
    \/ \E s \in SessionIds : HandleSocketSubscribe(s)
    \/ SimulateSleeps
    \/ SimulateSends
    \/ \E message \in HwFrames : CallbackDecodes(message)
    \/ CallbackSends
    \/ \E s \in SessionIds : SendTaskRecv(s)
    \/ \E s \in SessionIds : SendTaskSend(s)

\* Scheduling: code holding the guard is synchronous and runs on to the end
\* of its block; a thread blocked in lock() is woken when the guard is
\* dropped, and every locker waits (a sleep, an await, the next frame) before
\* it locks again.
FairLock ==
    /\ \A who \in LockUsers : SF_vars(MutexLock(who))
    /\ \A s \in SessionIds : WF_vars(HandleSocketSubscribe(s))
    /\ WF_vars(SimulateSends)
    /\ WF_vars(CallbackSends)

SpecLock == Init /\ [][NextLock]_vars /\ FairLock

(***************************************************************************)
(* The client's onmessage handler                                          *)
(***************************************************************************)
\* if events.len() > 100
LogCapacity == 100

\* A log that refuses the newest entry once it is full.
TrimLogNewest(log) ==
    IF Len(log) > LogCapacity THEN SubSeq(log, 1, Len(log) - 1) ELSE log

\* if events.len() > 100 { events.remove(0); }
TrimLog(log) == IF Len(log) > LogCapacity THEN Tail(log) ELSE log

\* notes.insert(note, v)
MapInsert(map, k, v) == [x \in (DOMAIN map) \cup {k} |-> IF x = k THEN v ELSE map[x]]

\* if let Some(note) = midi_message.note { match message_type { .. } }
NotesAfter(notes, m) ==
    IF m.note = None THEN notes
    ELSE IF m.message_type = "NoteOn" THEN MapInsert(notes, m.note[1], TRUE)
    ELSE IF m.message_type = "NoteOff" THEN MapInsert(notes, m.note[1], FALSE)
    ELSE notes

\* What the socket hands to onmessage: a text (its tokens) or binary data.
Text(tokens) == [kind |-> "text", text |-> tokens]
BinaryData == [kind |-> "binary", text |-> <<>>]

\* The handler on one MessageEvent; the event's timestamp (the wall clock at
\* the call) is left out of the log entry.
ClientHandles(data) ==
    /\ n_arrived' = n_arrived + 1
    /\ LET midi_message == IF data.kind = "text" THEN from_str(data.text) ELSE None IN
       IF midi_message # None
       THEN /\ events' = TrimLog(Append(events, [message |-> midi_message[1]]))
            /\ active_notes' = NotesAfter(active_notes, midi_message[1])
            /\ handled' = Append(handled, midi_message[1])
       ELSE UNCHANGED <<events, active_notes, handled>>

\* The k-th message (from 0) of a server in simulation mode.
ServerMessage(k) ==
    IF k % 2 = 0
    THEN MidiMessage("NoteOn", Some(ScaleNote(k \div 2)), Some(64), None, None)
    ELSE MidiMessage("NoteOff", Some(ScaleNote(k \div 2)), Some(0), None, None)

\* Texts that are not a MidiMessage: not JSON, a field out of u8's range, a
\* field missing.
MalformedTexts ==
    { <<"hello">>,
      <<"message_type", "NoteOn", "note", "256", "velocity", "64",
        "control", "null", "value", "null">>,
      <<"message_type", "NoteOn", "note", "60">> }

\* What can arrive after k parsed messages: the server's next text, a text
\* that does not parse, binary data.
ClientData(k) ==
    {Text(to_string(ServerMessage(k)))} \cup {Text(t) : t \in MalformedTexts} \cup {BinaryData}

ClientReceives ==
    /\ n_arrived < MaxArrivals
    /\ \E data \in ClientData(Len(handled)) : ClientHandles(data)
    /\ UNCHANGED <<frame, dec_pc, decoded, json, parsed>>
    /\ UNCHANGED <<startupVars, simVars, busVars, sessVars, histVars, lockVars>>

SpecClient == Init /\ [][ClientReceives]_vars

(***************************************************************************)
(* The decoder on its own: one call of from_raw_message per raw frame.     *)
(***************************************************************************)
InitDecode ==
    /\ InitService
    /\ InitClient
    /\ frame \in Frames
    /\ dec_pc = "call"
    /\ decoded = None
    /\ json = <<>>
    /\ parsed = None

Decode ==
    /\ dec_pc = "call"
    /\ decoded' = from_raw_message(frame)
    /\ dec_pc' = "returned"
    /\ UNCHANGED <<frame, json, parsed, clientVars>>
    /\ UNCHANGED <<startupVars, simVars, busVars, sessVars, histVars, lockVars>>

\* send_task: serde_json::to_string(&midi_message) of a decoded message, sent
\* as Message::Text
SerializeEvent ==
    /\ dec_pc = "returned"
    /\ decoded # None
    /\ json' = to_string(decoded[1])
    /\ dec_pc' = "sent"
    /\ UNCHANGED <<frame, decoded, parsed, clientVars>>
    /\ UNCHANGED <<startupVars, simVars, busVars, sessVars, histVars, lockVars>>

\* The client's onmessage handler on the text it was sent
onmessage_callback ==
    /\ dec_pc = "sent"
    /\ parsed' = from_str(json)
    /\ ClientHandles(Text(json))
    /\ dec_pc' = "parsed"
    /\ UNCHANGED <<frame, decoded, json>>
    /\ UNCHANGED <<startupVars, simVars, busVars, sessVars, histVars, lockVars>>

NextDecode == Decode \/ SerializeEvent \/ onmessage_callback

SpecDecode == InitDecode /\ [][NextDecode]_vars


(***************************************************************************)
(* Properties                                                              *)
(***************************************************************************)
Streaming(s) == sess[s] = "open" /\ send_task[s] \in {"recv", "send"} /\ s \in receivers

\* C1: when a session's recv returns Lagged, the session goes on: in the step
\* that reports the lag its outbound task stays in its receive loop and keeps
\* its Receiver, so that it receives what is published after the lag.
C1_LaggedIsNonFatal ==
    [][\A s \in SessionIds :
          (~lagged[s] /\ lagged'[s]) =>
              (send_task'[s] \in {"recv", "send"} /\ s \in receivers')]_vars

\* C2: once handle_socket has returned (the session is past Closing), its
\* outbound task sends nothing more to the client and its inbound task reads
\* nothing more.
C2_NothingAfterClosing ==
    [][\A s \in SessionIds :
          sess[s] = "closed" => (wire'[s] = wire[s] /\ ~late_read'[s])]_vars

\* C3: a rejected connection to an enumerated port does not end
\* start_midi_server: the synthetic source is started instead and the server
\* goes on to bind.
C3_ConnectFailureFallsBack ==
    (in_ports >= 1 /\ midi_connection = "Err(connect)") =>
        (pc_server # "exited" /\ sim_pc # "unspawned")


SyntheticActive == sim_pc # "unspawned"
HardwareActive == midi_connection = "Some"

\* C8: while the service serves connections exactly one producer is active,
\* the synthetic source if and only if the enumeration found no port and the
\* hardware callback otherwise; never both and never none.
C8_ExactlyOneProducer ==
    pc_server = "serving" =>
        /\ SyntheticActive # HardwareActive
        /\ SyntheticActive <=> (in_ports = 0)
        /\ HardwareActive <=> (in_ports >= 1)

\* C8's case: the service serves with a connected port, the callback has
\* published, and the simulation was never spawned.
C8_Witness ==
    /\ pc_server = "serving"
    /\ in_ports >= 1
    /\ HardwareActive
    /\ Len(published) >= 1
    /\ sim_pc = "unspawned"

\* The sequence the synthetic source is specified to publish, position i >= 1.
ClaimedScale == <<60, 62, 64, 65, 67, 69, 71, 72>>
ClaimedSyntheticEvent(i) ==
    LET k == (i - 1) \div 2
        note == ClaimedScale[(k % 8) + 1]
    IN  IF i % 2 = 1
        THEN MidiMessage("NoteOn", Some(note), Some(64), None, None)
        ELSE MidiMessage("NoteOff", Some(note), Some(0), None, None)

\* C9: the i-th message the synthetic source publishes is NoteOn(scale[k mod 8],
\* 64) for i = 2k+1 and NoteOff(scale[k mod 8], 0) for i = 2k+2; the first six
\* are NoteOn(60,64), NoteOff(60,0), NoteOn(62,64), NoteOff(62,0), NoteOn(64,64),
\* NoteOff(64,0); and the source always has a next step to take.
C9_SyntheticSequence ==
    /\ \A i \in 1..Len(published) : published[i].msg = ClaimedSyntheticEvent(i)
    /\ Len(published) >= 6 =>
          [i \in 1..6 |-> <<published[i].msg.message_type, published[i].msg.note,
                            published[i].msg.velocity>>]
          = << <<"NoteOn", <<60>>, <<64>>>>, <<"NoteOff", <<60>>, <<0>>>>,
               <<"NoteOn", <<62>>, <<64>>>>, <<"NoteOff", <<62>>, <<0>>>>,
               <<"NoteOn", <<64>>, <<64>>>>, <<"NoteOff", <<64>>, <<0>>>> >>
    /\ sim_pc = "sleep400" => Len(published) = 2 * current_note + 1
    /\ sim_pc \in {"sleep500", "note_on"} => Len(published) = 2 * current_note
    /\ (Alive /\ SyntheticActive /\ current_note < LongRun) => ENABLED SimulateLong

\* C9's case: the scale has been played through 72 and has restarted at 60.
C9_Witness ==
    /\ Len(published) >= 18
    /\ published[15].msg.note = Some(72)
    /\ published[17].msg = MidiMessage("NoteOn", Some(60), Some(64), None, None)
    /\ published[18].msg = MidiMessage("NoteOff", Some(60), Some(0), None, None)

\* C10: a frame of at least 3 bytes whose status nibble is 0x9 decodes to
\* NoteOn{byte 1, byte 2} when byte 2 > 0 and to NoteOff{byte 1, 0} when byte 2
\* is 0; no frame decodes to a NoteOn of velocity 0.
C10_NoteOnDecoding ==
    dec_pc = "returned" =>
        /\ (Len(frame) >= 3 /\ frame[1] \in 144..159) =>
              /\ frame[3] > 0 =>
                    decoded = Some(MidiMessage("NoteOn", Some(frame[2]), Some(frame[3]), None, None))
              /\ frame[3] = 0 =>
                    decoded = Some(MidiMessage("NoteOff", Some(frame[2]), Some(0), None, None))
        /\ decoded # None =>
              ~(decoded[1].message_type = "NoteOn" /\ decoded[1].velocity = Some(0))

\* C10's case: a note-on frame on channel 3 with velocity 0 has been decoded,
\* to a NoteOff.
C10_Witness ==
    /\ dec_pc = "returned"
    /\ frame = <<147, 64, 0>>
    /\ decoded = Some(MidiMessage("NoteOff", Some(64), Some(0), None, None))


\* The message published at channel position p.
HasPosition(p) == \E k \in 1..Len(published) : published[k].pos = p
EventAt(p) == published[CHOOSE k \in 1..Len(published) : published[k].pos = p].msg

\* C4: a session that holds its Receiver and has not fallen behind by more
\* than the ring has, of every message published since it subscribed, either
\* received an equal copy or an equal copy waiting at its cursor; its client
\* was sent the serialization of what it received; and two sessions hold the
\* messages they both received in the same relative order, as equal copies.
C4_FanOut ==
    /\ \A s \in receivers :
          (~lagged[s] /\ tail - next[s] <= Capacity) =>
              /\ \A p \in sub_tail[s]..(tail - 1) :
                    /\ HasPosition(p)
                    /\ IF p < next[s]
                       THEN \E i \in 1..Len(received[s]) :
                               received[s][i] = [pos |-> p, msg |-> EventAt(p)]
                       ELSE buffer[p % Capacity] = [pos |-> p, val |-> Some(EventAt(p))]
              /\ Len(received[s]) = next[s] - sub_tail[s]
    /\ \A s \in SessionIds :
          /\ Len(wire[s]) <= Len(received[s])
          /\ \A i \in 1..Len(wire[s]) : wire[s][i] = to_string(EventAt(received[s][i].pos))
    /\ \A s, t \in SessionIds :
          \A i, j \in 1..Len(received[s]) :
             \A k, l \in 1..Len(received[t]) :
                (received[s][i].pos = received[t][k].pos /\ received[s][j].pos = received[t][l].pos)
                   => /\ received[s][i].msg = received[t][k].msg
                      /\ (i < j) <=> (k < l)

\* C4's case: two subscribed sessions have both received the same two
\* different messages and both sent them on.
C4_Witness ==
    \E s, t \in receivers :
       /\ s # t
       /\ Len(received[s]) >= 2
       /\ received[s] = received[t]
       /\ received[s][1].msg # received[s][2].msg
       /\ Len(wire[s]) >= 2
       /\ wire[s] = wire[t]

\* C5: what one subscriber is handed, and what its session sends, is a
\* subsequence of the published messages: each is the message published at
\* its position, positions strictly increase (publish order, nothing twice),
\* and the client is sent the serialization of a prefix of what was handed.
C5_SubscriberSubsequence ==
    \A s \in SessionIds :
       /\ \A i \in 1..Len(received[s]) :
             \E k \in 1..Len(published) :
                /\ published[k].pos = received[s][i].pos
                /\ published[k].msg = received[s][i].msg
       /\ \A i, j \in 1..Len(received[s]) :
             i < j => received[s][i].pos < received[s][j].pos
       /\ \A j, k \in 1..Len(published) :
             (j < k /\ published[j].pos >= 0 /\ published[k].pos >= 0)
                => published[j].pos < published[k].pos
       /\ Len(wire[s]) <= Len(received[s])
       /\ Len(wire[s]) >= Len(received[s]) - 1
       /\ \A i \in 1..Len(wire[s]) : wire[s][i] = to_string(received[s][i].msg)

\* C5's case: a session that missed the first published message has been
\* handed, and has sent, two later ones.
C5_Witness ==
    \E s \in SessionIds :
       /\ Len(published) >= 3
       /\ published[1].pos = -1
       /\ Len(received[s]) >= 2
       /\ Len(wire[s]) >= 2

\* C6 as claimed: a waiting subscriber that is more than the requested capacity
\* behind gets Lagged on its next receive.
C6_LaggedBeyondRequestedCapacity ==
    \A s \in SessionIds :
       (send_task[s] = "recv" /\ tail - next[s] > RequestedCapacity)
          => RecvLagged(buffer, next[s])

\* C6, amended: a waiting subscriber that is more than the channel's capacity
\* (the requested one rounded up to a power of two) behind gets Lagged on its
\* next receive, and not before; what it lost are the oldest unconsumed
\* messages, the newest are still in the ring; no subscriber is handed
\* messages with a gap between them; and a producer at a publish is never made
\* to wait, whatever the subscribers' cursors.
C6_Backpressure ==
    /\ \A s \in SessionIds :
          send_task[s] = "recv" =>
             /\ (tail - next[s] > Capacity) <=> RecvLagged(buffer, next[s])
             /\ RecvLagged(buffer, next[s]) =>
                   /\ \A p \in next[s]..(tail - Capacity - 1) : buffer[p % Capacity].pos # p
                   /\ \A p \in (tail - Capacity)..(tail - 1) :
                         buffer[p % Capacity] = [pos |-> p, val |-> Some(EventAt(p))]
    /\ \A s \in SessionIds :
          \A i \in 1..Len(received[s]) : received[s][i].pos = sub_tail[s] + i - 1
    /\ (Alive /\ sim_pc \in {"note_on", "note_off"} /\ Len(published) < MaxPublish)
          => ENABLED Simulate
    /\ SendReady(receivers, next, tail)

\* C6's case: a subscriber fell more than the capacity behind and its receive
\* returned Lagged, moving its cursor to the oldest message still in the ring.
C6_Witness ==
    \E s \in SessionIds :
       /\ lagged[s]
       /\ Len(received[s]) = 0
       /\ next[s] = tail - Capacity
       /\ tail - sub_tail[s] > Capacity


\* A step in which session s meets a send failure, a read error, a close
\* frame, the end of its stream or a lag, or in which its handler returns.
SessionEnds(s) ==
    \/ send_task[s] # "done" /\ send_task'[s] = "done"
    \/ recv_task[s] # "done" /\ recv_task'[s] = "done"
    \/ sess[s] # "closed" /\ sess'[s] = "closed"
    \/ ~lagged[s] /\ lagged'[s]

SessionUntouched(t) ==
    /\ sess'[t] = sess[t]
    /\ send_task'[t] = send_task[t]
    /\ recv_task'[t] = recv_task[t]
    /\ in_hand'[t] = in_hand[t]
    /\ peer_closed'[t] = peer_closed[t]
    /\ next'[t] = next[t]
    /\ (t \in receivers') <=> (t \in receivers)
    /\ received'[t] = received[t]
    /\ wire'[t] = wire[t]
    /\ lagged'[t] = lagged[t]
    /\ Streaming(t) => (Streaming(t))'
    /\ RecvReady(buffer', next'[t]) <=> RecvReady(buffer, next[t])

\* C7: a step in which one session fails, closes or lags changes nothing of
\* any other session (a streaming one stays streaming, with the same cursor,
\* Receiver and pending messages) and nothing of the producer or the ring;
\* and a streaming session that has not itself fallen behind has received, or
\* has waiting at its cursor, every message published since it subscribed,
\* whatever became of the other sessions.
C7_SessionIsolation ==
    [][/\ \A s \in SessionIds :
             SessionEnds(s) =>
                /\ \A t \in SessionIds \ {s} : SessionUntouched(t)
                /\ UNCHANGED <<startupVars, simVars, buffer, tail, published>>
                /\ SendReady(receivers', next', tail')
       /\ \A t \in SessionIds :
             (Streaming(t) /\ tail - next[t] <= Capacity) =>
                /\ Len(received[t]) = next[t] - sub_tail[t]
                /\ \A p \in next[t]..(tail - 1) : buffer[p % Capacity].pos = p]_vars

\* C7's case: one session has ended through a failure or a lag and its
\* handler has returned, while another one streams and has received and sent
\* on a message published after the first one stopped receiving.
C7_Witness ==
    \E s, t \in SessionIds :
       /\ s # t
       /\ sess[s] = "closed"
       /\ send_task[s] = "done"
       /\ Streaming(t)
       /\ \E i \in 1..Len(wire[t]) : received[t][i].pos >= next[s]


\* The status nibble as the wire protocol numbers it: 8, 9, 11, ...
StatusNibble(f) == f[1] \div 16

\* C11: a frame of at least 3 bytes decodes to NoteOff{byte 1, byte 2} when
\* its status nibble is 0x8 and to ControlChange{byte 1, byte 2} when it is
\* 0xB, whatever the low nibble of the status and whatever follows byte 2.
C11_NoteOffAndControlChange ==
    (dec_pc # "call" /\ Len(frame) >= 3) =>
        /\ StatusNibble(frame) = 8 =>
              decoded = Some(MidiMessage("NoteOff", Some(frame[2]), Some(frame[3]), None, None))
        /\ StatusNibble(frame) = 11 =>
              decoded = Some(MidiMessage("ControlChange", None, None, Some(frame[2]), Some(frame[3])))
        /\ StatusNibble(frame) \in {8, 11} =>
              \A g \in Frames :
                 (Len(g) >= 3 /\ StatusNibble(g) = StatusNibble(frame)
                    /\ g[2] = frame[2] /\ g[3] = frame[3])
                       => from_raw_message(g) = decoded

\* C11's case: a 4-byte note-off frame on channel 15 has been decoded.
C11_Witness ==
    /\ dec_pc # "call"
    /\ frame = <<143, 64, 127, 1>>
    /\ decoded = Some(MidiMessage("NoteOff", Some(64), Some(127), None, None))

\* C12: decode returns None exactly for the empty frame and for the frames of
\* 1 or 2 bytes whose status nibble is 0x8, 0x9 or 0xB.
C12_NoneExactlyWhenTruncated ==
    dec_pc # "call" =>
        ((decoded = None) <=>
            (\/ Len(frame) = 0
             \/ Len(frame) \in {1, 2} /\ StatusNibble(frame) \in {8, 9, 11}))

\* C12's case: a 2-byte control-change frame has been decoded, to None.
C12_Witness ==
    /\ dec_pc # "call"
    /\ frame = <<178, 64>>
    /\ decoded = None

\* C13: a non-empty frame whose status nibble is none of 0x8, 0x9, 0xB decodes,
\* whatever its length, to Unknown with the code byte 0 & 0xF0 and no fields.
C13_UnknownNeverFails ==
    (dec_pc # "call" /\ Len(frame) >= 1 /\ StatusNibble(frame) \notin {8, 9, 11}) =>
        decoded = Some(MidiMessage("Unknown(" \o ToString(16 * StatusNibble(frame)) \o ")",
                                   None, None, None, None))

\* C13's case: the single byte 0xF8 has been decoded, to Unknown(240).
C13_Witness ==
    /\ dec_pc # "call"
    /\ frame = <<248>>
    /\ decoded = Some(MidiMessage("Unknown(240)", None, None, None, None))


\* C14: a session is handed nothing that was published before it subscribed:
\* every position it receives, and its cursor, is at or after the channel's
\* tail at its subscribe, although the ring may still hold older messages;
\* the first message it receives is the first one stored after its subscribe.
C14_SubscribeStartsAtNow ==
    \A s \in SessionIds :
       sess[s] # "idle" =>
          /\ next[s] >= sub_tail[s]
          /\ \A i \in 1..Len(received[s]) : received[s][i].pos >= sub_tail[s]
          /\ Len(received[s]) >= 1 => received[s][1].pos = sub_tail[s]
          /\ \A k \in 1..Len(published) :
                (published[k].pos < sub_tail[s]) =>
                    \A i \in 1..Len(received[s]) : received[s][i].pos # published[k].pos

\* C14's case: a session subscribed after a message was stored, that message
\* is still in the ring, and the session has received a later one.
C14_Witness ==
    \E s \in SessionIds :
       /\ sub_tail[s] >= 1
       /\ buffer[0] = [pos |-> 0, val |-> Some(EventAt(0))]
       /\ Len(received[s]) >= 1
       /\ received[s][1].pos = sub_tail[s]


\* C15: a message published while the channel has no receiver is discarded:
\* it takes no position in the ring and no session, then or later, is handed
\* it; the producer is not stopped by it: the synthetic source's position and
\* counter advance with every publish whether or not it was discarded, and a
\* source at a publish with no receiver can take that step.
C15_PublishWithoutSubscribers ==
    /\ Cardinality({k \in 1..Len(published) : published[k].pos >= 0}) = tail
    /\ \A k \in 1..Len(published) :
          published[k].pos >= 0 =>
             published[k].pos = Cardinality({j \in 1..(k - 1) : published[j].pos >= 0})
    /\ \A s \in SessionIds : \A i \in 1..Len(received[s]) :
          \E k \in 1..Len(published) :
             /\ published[k].pos = received[s][i].pos
             /\ published[k].pos >= 0
    /\ SyntheticActive =>
          Len(published) = 2 * current_note
                           + (IF sim_pc \in {"sleep400", "note_off"} THEN 1 ELSE 0)
    /\ (receivers = {} /\ Alive /\ sim_pc \in {"note_on", "note_off"}
          /\ Len(published) < MaxPublish) => ENABLED Simulate
    /\ (\E k \in 1..Len(published) : published[k].pos = -1) => exit_cause # "setup"

\* C15's case: the first message was published to no receiver and discarded,
\* the source went on publishing, and a session that subscribed afterwards has
\* received the first stored message, not the discarded one.
C15_Witness ==
    /\ Len(published) >= 2
    /\ published[1].pos = -1
    /\ \E s \in SessionIds :
          /\ Len(received[s]) >= 1
          /\ received[s][1].pos = 0
          /\ received[s][1].msg # published[1].msg


\* The messages the synthetic source publishes: a NoteOn and a NoteOff per
\* note of the scale.
SyntheticMessages ==
    {MidiMessage("NoteOn", Some(ScaleNote(k)), Some(64), None, None) : k \in 0..7}
    \cup {MidiMessage("NoteOff", Some(ScaleNote(k)), Some(0), None, None) : k \in 0..7}

\* C16: serializing a published message to the wire text and parsing that text
\* as the client does yields a message equal to the original: for every message
\* the decoder produced and that was serialized and parsed, and for every
\* message of the synthetic source.
C16_RoundTrip ==
    /\ dec_pc = "parsed" => parsed = Some(decoded[1])
    /\ dec_pc \in {"sent", "parsed"} => from_str(json) = decoded
    /\ \A m \in SyntheticMessages : from_str(to_string(m)) = Some(m)

\* C16's case: a control-change message with a data byte above 127 went over
\* the wire and the client parsed it back, null fields included.
C16_Witness ==
    /\ dec_pc = "parsed"
    /\ decoded = Some(MidiMessage("ControlChange", None, None, Some(200), Some(127)))
    /\ json[8] = "200"
    /\ json[4] = "null"
    /\ parsed = decoded


InRange(o, lo, hi) == o # None /\ o[1] >= lo /\ o[1] <= hi

\* C17: every message the decoder returns respects the data model's ranges:
\* a NoteOn has note in 0..127 and velocity in 1..127, a NoteOff has note and
\* velocity in 0..127, a ControlChange has control and value in 0..127.
C17_DecoderRanges ==
    (dec_pc # "call" /\ decoded # None) =>
        LET m == decoded[1] IN
        /\ m.message_type = "NoteOn" =>
              InRange(m.note, 0, 127) /\ InRange(m.velocity, 1, 127)
        /\ m.message_type = "NoteOff" =>
              InRange(m.note, 0, 127) /\ InRange(m.velocity, 0, 127)
        /\ m.message_type = "ControlChange" =>
              InRange(m.control, 0, 127) /\ InRange(m.value, 0, 127)


UnknownTypes == {"Unknown(" \o ToString(16 * n) \o ")" : n \in 0..15}

\* C18: every message published on the bus, by the hardware callback or by
\* the synthetic source, carries exactly the fields of its variant: note and
\* velocity and nothing else for NoteOn and NoteOff, control and value and
\* nothing else for ControlChange, no field at all for Unknown; on the wire
\* the fields it does not carry are null.
C18_VariantFields ==
    \A k \in 1..Len(published) :
       LET m == published[k].msg IN
       /\ m.message_type \in {"NoteOn", "NoteOff", "ControlChange"} \cup UnknownTypes
       /\ m.message_type \in {"NoteOn", "NoteOff"} =>
             /\ m.note # None /\ m.velocity # None
             /\ m.control = None /\ m.value = None
             /\ to_string(m)[8] = "null" /\ to_string(m)[10] = "null"
       /\ m.message_type = "ControlChange" =>
             /\ m.control # None /\ m.value # None
             /\ m.note = None /\ m.velocity = None
             /\ to_string(m)[4] = "null" /\ to_string(m)[6] = "null"
       /\ m.message_type \in UnknownTypes =>
             /\ m.note = None /\ m.velocity = None
             /\ m.control = None /\ m.value = None

\* C18's case: the hardware callback has published a ControlChange and then
\* an Unknown message.
C18_Witness ==
    /\ Len(published) = 2
    /\ published[1].msg.message_type = "ControlChange"
    /\ published[2].msg.message_type = "Unknown(240)"

\* C18's other producer: the synthetic source has published a NoteOn and the
\* NoteOff that follows it.
C18_WitnessSynthetic ==
    /\ SyntheticActive
    /\ Len(published) >= 2
    /\ published[1].msg.message_type = "NoteOn"
    /\ published[2].msg.message_type = "NoteOff"


\* C19: when a session is Closed (handle_socket has returned, whichever task
\* ended first), its receiver has been dropped: the channel's set of live
\* receivers holds no receiver of a closed session.
C19_ClosedSessionReleased ==
    \A s \in SessionIds : sess[s] = "closed" => s \notin receivers


\* C20: a turn of the inbound loop on a text frame, or on any frame that is
\* not a close frame, leaves the loop reading and changes nothing of the bus,
\* the session, the outbound task or the wire (no reply, no publish); the
\* loop ends exactly on a close frame, a read error or the end of the stream,
\* it ends in no other way, and once it has ended the open session's handler
\* can return.
C20_InboundLoop ==
    /\ [](\A s \in SessionIds :
            (recv_task[s] = "done" /\ sess[s] = "open" /\ Alive)
               => ENABLED HandleSocketReturn(s))
    /\ [][\A s \in SessionIds :
            /\ \A msg \in ClientFrames :
                  RecvTaskReads(s, msg) =>
                     /\ recv_task'[s] = "done" <=> msg \in {"Close", "Err", "End"}
                     /\ msg \in {"Text", "Binary", "Ping", "Pong"} =>
                           /\ recv_task'[s] = "next"
                           /\ UNCHANGED <<busVars, sessVars, startupVars, simVars>>
                           /\ UNCHANGED <<published, received, wire>>
            /\ (recv_task[s] = "next" /\ recv_task'[s] = "done") =>
                  \E msg \in {"Close", "Err", "End"} : RecvTaskReads(s, msg)
         ]_vars

\* C20's case: one session's inbound loop has ended on the client's close
\* frame and its handler has returned, while the other session, still open and
\* reading, has been sent a message.
C20_Witness ==
    \E s, t \in SessionIds :
       /\ s # t
       /\ recv_task[s] = "done" /\ peer_closed[s] /\ sess[s] = "closed"
       /\ send_task[s] # "done"
       /\ recv_task[t] = "next" /\ sess[t] = "open"
       /\ Len(wire[t]) >= 1


\* C21: in the synthetic source the only wait of a step is the 500 ms between
\* its NoteOn and its NoteOff: a NoteOff is published 500 ms after its NoteOn,
\* the next NoteOn is published with no wait after that NoteOff, and
\* consecutive NoteOns are 500 ms apart.
C21_OnlyWaitIsTheHold ==
    \A i \in 1..Len(sent_at) :
       /\ (i % 2 = 0) => sent_at[i] - sent_at[i - 1] = 500
       /\ (i % 2 = 1 /\ i > 1) =>
             /\ sent_at[i] = sent_at[i - 1]
             /\ sent_at[i] - sent_at[i - 2] = 500


RECURSIVE DecodingsOf(_)
\* The messages a sequence of frames decodes to, frames decoding to None left out.
DecodingsOf(frames) ==
    IF frames = <<>> THEN <<>>
    ELSE LET d == from_raw_message(Head(frames)) IN
         (IF d = None THEN <<>> ELSE <<d[1]>>) \o DecodingsOf(Tail(frames))

\* C22: in hardware mode the messages published are exactly the decodings of
\* the frames that arrived and decode to a message, one publish per such frame
\* and in arrival order; a call of the callback on a frame that decodes to
\* None publishes nothing and changes nothing else.
C22_HardwarePublishesDecodings ==
    /\ [](HardwareActive =>
            [i \in 1..Len(published) |-> published[i].msg] = DecodingsOf(arrived))
    /\ [][\A message \in VariantFrames :
            (Callback(message) /\ from_raw_message(message) = None) =>
               /\ UNCHANGED <<startupVars, simVars, busVars, sessVars, decVars>>
               /\ UNCHANGED <<published, sub_tail, received, wire, lagged, late_read>>
         ]_vars

\* C22's case: a truncated control-change frame arrived and then a note-off
\* frame; one message was published, the note-off.
C22_Witness ==
    /\ HardwareActive
    /\ arrived = <<<<178, 1>>, <<128, 60, 64>>>>
    /\ Len(published) = 1
    /\ published[1].msg = MidiMessage("NoteOff", Some(60), Some(64), None, None)


\* C23: the guard is held only while its holder is between a lock() and the
\* end of the block (never at a sleep, an await or outside the callback), the
\* holder can always take the step that ends the block, a free lock can be
\* taken by whoever is waiting, and every thread that has reached a lock()
\* eventually holds the guard unless the process exits.
C23_LockDiscipline ==
    /\ [](/\ mutex # NoHolder => AtLock(mutex)
          /\ sim_pc \in {"sleep500", "sleep400", "unspawned"} => mutex # SimulateThread
          /\ cb_pc = "idle" => mutex # CallbackThread
          /\ \A s \in SessionIds :
                sess[s] \in {"idle", "open", "closed"} => mutex # SessionThread(s)
          /\ (Alive /\ mutex = SimulateThread) => ENABLED SimulateSends
          /\ (Alive /\ mutex = CallbackThread) => ENABLED CallbackSends
          /\ \A s \in SessionIds :
                (Alive /\ mutex = SessionThread(s)) => ENABLED HandleSocketSubscribe(s)
          /\ \A who \in LockUsers :
                (Alive /\ AtLock(who) /\ mutex = NoHolder) => ENABLED MutexLock(who))
    /\ \A who \in LockUsers :
          (AtLock(who) /\ mutex # who) ~> (mutex = who \/ ~Alive)

\* C23's case: the second session holds the guard while the first session,
\* already subscribed, awaits the channel, and the synthetic source waits at
\* its lock() for the guard.
C23_Witness ==
    /\ mutex = SessionThread(2)
    /\ sess[1] = "open" /\ send_task[1] = "recv"
    /\ AtLock(SimulateThread)


=============================================================================
